---- MODULE Spec2Model ----
(***************************************************************************)
(* Model of st_show.py: load_data, preprocess_data, create_bubble_chart    *)
(* and the script body main, which Streamlit re-runs on every widget       *)
(* change.                                                                 *)
(*                                                                         *)
(* Numbers are exact rationals n/d (the floats of the program are not      *)
(* rounded here).  Strings are tuples of one-character strings.  A cell of *)
(* the table is a record [t, n, d, s]: t = "num" is the number n/d,        *)
(* t = "str" is the text s, t = "nan" is the missing value (NaN).          *)
(* Columns are named in ASCII:                                             *)
(*   stock_name = 股票名称      period   = 报告期                          *)
(*   npm        = 销售净利率    npm_num  = 销售净利率_数值                 *)
(*   roa        = 总资产净利率  roa_num  = 总资产净利率_数值               *)
(*   turnover   = 总资产周转率                                             *)
(***************************************************************************)
EXTENDS Integers, Sequences, FiniteSets, TLC

VARIABLES file, cache, pc, df, periods, default_period, selected_period,
          selected_stocks, fig, detail, messages

vars == <<file, cache, pc, df, periods, default_period, selected_period,
          selected_stocks, fig, detail, messages>>

----------------------------------------------------------------------------
(* Bounds *)

MaxRows == 3

----------------------------------------------------------------------------
(* Cells and exact arithmetic *)

NaN == [t |-> "nan", n |-> 0, d |-> 1, s |-> <<>>]

Str(chars) == [t |-> "str", n |-> 0, d |-> 1, s |-> chars]

Abs(i) == IF i < 0 THEN -i ELSE i

RECURSIVE GCD(_, _)
GCD(a, b) == IF b = 0 THEN a ELSE GCD(b, a % b)

\* the number n/d in lowest terms with a positive denominator (d # 0)
Num(n, d) ==
    LET sn == IF d < 0 THEN -n ELSE n
        sd == Abs(d)
        g  == GCD(Abs(sn), sd)
    IN  [t |-> "num", n |-> sn \div g, d |-> sd \div g, s |-> <<>>]

Int2Num(i) == Num(i, 1)

isna(c) == c.t = "nan"

\* float arithmetic: NaN in, NaN out
Add(a, b) == IF isna(a) \/ isna(b) THEN NaN ELSE Num(a.n * b.d + b.n * a.d, a.d * b.d)

Sub(a, b) == IF isna(a) \/ isna(b) THEN NaN ELSE Num(a.n * b.d - b.n * a.d, a.d * b.d)

Mul(a, b) == IF isna(a) \/ isna(b) THEN NaN ELSE Num(a.n * b.n, a.d * b.d)

\* numpy float division: x / 0 is not a finite number
Div(a, b) == IF isna(a) \/ isna(b) \/ b.n = 0 THEN NaN ELSE Num(a.n * b.d, a.d * b.n)

NumAbs(a) == IF isna(a) THEN NaN ELSE Num(Abs(a.n), a.d)

Less(a, b) == a.n * b.d < b.n * a.d

\* int(x): truncation toward zero
int(a) == IF a.n >= 0 THEN a.n \div a.d ELSE -((-a.n) \div a.d)

----------------------------------------------------------------------------
(* Text: str(), parsing, ordering *)

\* the characters of the model in code-point order
Alphabet == <<"-", ".", "0", "1", "2", "3", "4", "5", "6", "7", "8", "9",
              "A", "B", "D", "E", "G", "I", "M", "N", "O", "R", "S", "T",
              "U", "W", "Y", "a", "n">>

ord(c) == CHOOSE i \in DOMAIN Alphabet : Alphabet[i] = c

Digits == <<"0", "1", "2", "3", "4", "5", "6", "7", "8", "9">>

IsDigit(c) == \E i \in DOMAIN Digits : Digits[i] = c

DigitVal(c) == (CHOOSE i \in DOMAIN Digits : Digits[i] = c) - 1

\* str(i) of a non-negative integer
RECURSIVE NatStr(_)
NatStr(i) == IF i < 10 THEN <<Digits[i + 1]>>
             ELSE NatStr(i \div 10) \o <<Digits[(i % 10) + 1]>>

IntStr(i) == IF i < 0 THEN <<"-">> \o NatStr(-i) ELSE NatStr(i)

RECURSIVE DigitsVal(_)
DigitsVal(s) == IF s = <<>> THEN 0
                ELSE DigitsVal(SubSeq(s, 1, Len(s) - 1)) * 10 + DigitVal(s[Len(s)])

RECURSIVE Pow10(_)
Pow10(k) == IF k = 0 THEN 1 ELSE 10 * Pow10(k - 1)

\* the number a text denotes: an optional sign, digits, at most one decimal
\* point; NaN for any other text (errors='coerce')
ParseText(s) ==
    LET neg  == s # <<>> /\ s[1] = "-"
        body == IF neg THEN Tail(s) ELSE s
        dots == {i \in DOMAIN body : body[i] = "."}
        digs == SelectSeq(body, IsDigit)
        ok   == /\ Cardinality(dots) <= 1
                /\ Len(digs) >= 1
                /\ Len(digs) + Cardinality(dots) = Len(body)
        frac == IF dots = {} THEN 0 ELSE Len(body) - (CHOOSE i \in dots : TRUE)
        mag  == DigitsVal(digs)
    IN  IF ok THEN Num(IF neg THEN -mag ELSE mag, Pow10(frac)) ELSE NaN

\* pd.to_numeric(cell, errors='coerce')
to_numeric(c) == IF c.t = "str" THEN ParseText(c.s) ELSE c

\* astype(str) of a cell holding an integer, a text or NaN
astype_str(c) ==
    CASE c.t = "str" -> c
      [] c.t = "nan" -> Str(<<"n", "a", "n">>)
      [] c.t = "num" /\ c.d = 1 -> Str(IntStr(c.n))

\* s < t for Python strings
RECURSIVE LexLess(_, _)
LexLess(s, t) ==
    IF t = <<>> THEN FALSE
    ELSE IF s = <<>> THEN TRUE
    ELSE IF s[1] # t[1] THEN ord(s[1]) < ord(t[1])
    ELSE LexLess(Tail(s), Tail(t))

\* sorted(S) and sorted(S, reverse=True) of a set of texts
RECURSIVE sorted(_, _)
sorted(S, reverse) ==
    IF S = {} THEN <<>>
    ELSE LET first == IF reverse
                      THEN CHOOSE x \in S : \A y \in S \ {x} : LexLess(y, x)
                      ELSE CHOOSE x \in S : \A y \in S \ {x} : LexLess(x, y)
         IN  <<first>> \o sorted(S \ {first}, reverse)

Range(seq) == {seq[i] : i \in DOMAIN seq}

----------------------------------------------------------------------------
(* Tables: [cols, rows], rows a sequence of functions from cols to cells *)

RequiredCols == {"stock_name", "period", "npm", "turnover", "roa"}

NoTable == [cols |-> {}, rows |-> <<>>]

\* df[col] = vals, one value per row; the column is added when it is new
SetCol(t, col, vals) ==
    [cols |-> t.cols \cup {col},
     rows |-> [i \in DOMAIN t.rows |->
                 [c \in t.cols \cup {col} |->
                    IF c = col THEN vals[i] ELSE t.rows[i][c]]]]

\* variant: a cell that is not a number becomes 0
percent_zero(c) ==
    LET v == to_numeric(c)
    IN  IF isna(v) THEN Int2Num(0) ELSE Div(v, Int2Num(100))

\* pd.to_numeric(cell, errors='coerce') / 100
percent(c) == Div(to_numeric(c), Int2Num(100))

\* preprocess_data: every assignment is made on the table that was passed in,
\* and that same table is returned
preprocess_data(t) ==
    LET t1 == IF "npm" \in t.cols
              THEN SetCol(t, "npm_num",
                          [i \in DOMAIN t.rows |-> percent(t.rows[i]["npm"])])
              ELSE t
        t2 == IF "roa" \in t1.cols
              THEN SetCol(t1, "roa_num",
                          [i \in DOMAIN t1.rows |-> percent(t1.rows[i]["roa"])])
              ELSE t1
        t3 == IF "turnover" \in t2.cols
              THEN SetCol(t2, "turnover",
                          [i \in DOMAIN t2.rows |-> to_numeric(t2.rows[i]["turnover"])])
              ELSE t2
        t4 == IF "period" \in t3.cols
              THEN SetCol(t3, "period",
                          [i \in DOMAIN t3.rows |-> astype_str(t3.rows[i]["period"])])
              ELSE t3
    IN  t4

----------------------------------------------------------------------------
(* create_bubble_chart *)

NoSeries == <<>>

Result(kind) ==
    [kind |-> kind, x |-> NoSeries, y |-> NoSeries, size |-> NoSeries,
     color |-> NoSeries, line_color |-> NoSeries, text |-> NoSeries,
     text_size |-> NoSeries, customdata |-> NoSeries, title |-> <<>>]

None == Result("None")

KeyError == Result("KeyError")

Unset == Result("unset")

\* variant: the period is not compared
filter_rows_any_period(rows, period, stocks) ==
    LET Match(r) == /\ r["stock_name"].t = "str"
                    /\ r["stock_name"].s \in stocks
    IN  SelectSeq(rows, Match)

\* df[(df.period == selected_period) & df.stock_name.isin(selected_stocks)]
filter_rows(rows, period, stocks) ==
    LET Match(r) == /\ r["period"] = Str(period)
                    /\ r["stock_name"].t = "str"
                    /\ r["stock_name"].s \in stocks
    IN  SelectSeq(rows, Match)

DropSubset == {"turnover", "npm_num", "roa_num"}

\* variant: no row is dropped
dropna_none(rows) == rows

\* dropna(subset=[turnover, npm_num, roa_num])
dropna(rows) ==
    LET Complete(r) == \A c \in DropSubset : ~isna(r[c])
    IN  SelectSeq(rows, Complete)

\* variant: the sign is kept
bubble_size_signed(val) == Add(Mul(val, Int2Num(500)), Int2Num(20))

\* abs(return_on_assets) * 500 + 20
bubble_size(val) == Add(Mul(NumAbs(val), Int2Num(500)), Int2Num(20))

series_max(vals) == CHOOSE v \in Range(vals) : \A w \in Range(vals) : ~Less(v, w)

series_min(vals) == CHOOSE v \in Range(vals) : \A w \in Range(vals) : ~Less(w, v)

\* variant: the range of equal values is 0
val_range_unguarded(max_val, min_val) == Sub(max_val, min_val)

val_range(max_val, min_val) ==
    IF max_val # min_val THEN Sub(max_val, min_val) ELSE Int2Num(1)

norm(val, min_val, range) == Div(Sub(val, min_val), range)

rgba(r, g, b, a) == [r |-> r, g |-> g, b |-> b, a |-> a]

Max2(i, j) == IF i > j THEN i ELSE j

\* blue (0,102,255) to red (255,60,60), each channel truncated
channels(t) ==
    [r |-> int(Add(Int2Num(0), Mul(Int2Num(255 - 0), t))),
     g |-> int(Add(Int2Num(102), Mul(Int2Num(60 - 102), t))),
     b |-> int(Add(Int2Num(255), Mul(Int2Num(60 - 255), t)))]

fill_color(val, min_val, range) ==
    IF isna(val) THEN rgba(200, 200, 200, "0.6")
    ELSE LET c == channels(norm(val, min_val, range))
         IN  rgba(c.r, c.g, c.b, "0.70")

edge_color(val, min_val, range) ==
    IF isna(val) THEN rgba(120, 120, 120, "1")
    ELSE LET c == channels(norm(val, min_val, range))
         IN  rgba(Max2(c.r - 40, 0), Max2(c.g - 40, 0), Max2(c.b - 40, 0), "0.95")

Ellipsis == <<".", ".", ".">>

text_size(size) ==
    IF Less(size, Int2Num(50)) THEN 8
    ELSE IF Less(size, Int2Num(80)) THEN 10
    ELSE 12

\* variant: names of exactly 4 and 6 characters are cut as well
text_label_inclusive(size, stock_name) ==
    IF Less(size, Int2Num(50))
    THEN IF Len(stock_name) >= 4 THEN SubSeq(stock_name, 1, 3) \o Ellipsis
         ELSE stock_name
    ELSE IF Less(size, Int2Num(80))
    THEN IF Len(stock_name) >= 6 THEN SubSeq(stock_name, 1, 5) \o Ellipsis
         ELSE stock_name
    ELSE stock_name

text_label(size, stock_name) ==
    IF Less(size, Int2Num(50))
    THEN IF Len(stock_name) > 4 THEN SubSeq(stock_name, 1, 3) \o Ellipsis
         ELSE stock_name
    ELSE IF Less(size, Int2Num(80))
    THEN IF Len(stock_name) > 6 THEN SubSeq(stock_name, 1, 5) \o Ellipsis
         ELSE stock_name
    ELSE stock_name

\* the trace of go.Scatter, one entry of every series per row, and the
\* period of the title; rows is not empty here, so max_val and min_val are
\* those of the series.  The hover line is given by customdata, x and y;
\* the fixed layout is left out.
figure(rows, period) ==
    LET vals    == [i \in DOMAIN rows |-> rows[i]["roa_num"]]
        sizes   == [i \in DOMAIN rows |-> bubble_size(vals[i])]
        max_val == series_max(vals)
        min_val == series_min(vals)
        range   == val_range(max_val, min_val)
    IN  [kind       |-> "Figure",
         x          |-> [i \in DOMAIN rows |-> rows[i]["turnover"]],
         y          |-> [i \in DOMAIN rows |-> Mul(rows[i]["npm_num"], Int2Num(100))],
         size       |-> sizes,
         color      |-> [i \in DOMAIN rows |-> fill_color(vals[i], min_val, range)],
         line_color |-> [i \in DOMAIN rows |-> edge_color(vals[i], min_val, range)],
         text       |-> [i \in DOMAIN rows |-> text_label(sizes[i], rows[i]["stock_name"].s)],
         text_size  |-> [i \in DOMAIN rows |-> text_size(sizes[i])],
         customdata |-> [i \in DOMAIN rows |-> rows[i]["stock_name"].s],
         title      |-> period]

create_bubble_chart(t, period, stocks) ==
    IF ~({"period", "stock_name"} \subseteq t.cols) THEN KeyError
    ELSE LET filtered_df == filter_rows(t.rows, period, stocks)
         IN  IF filtered_df = <<>> THEN None
             ELSE IF ~(DropSubset \subseteq t.cols) THEN KeyError
             ELSE LET kept == dropna(filtered_df)
                  IN  IF kept = <<>> THEN None ELSE figure(kept, period)

----------------------------------------------------------------------------
(* The spreadsheets the model reads *)

ANTA == <<"A", "N", "T", "A">>

YOUNGR == <<"Y", "O", "U", "N", "G", "R">>

METERSBONW == <<"M", "E", "T", "E", "R", "S", "B", "O", "N", "W">>

Names == {ANTA, YOUNGR, METERSBONW}

Row(name, period, npm, turnover, roa) ==
    [c \in RequiredCols |->
       CASE c = "stock_name" -> Str(name)
         [] c = "period"     -> Int2Num(period)
         [] c = "npm"        -> npm
         [] c = "turnover"   -> turnover
         [] c = "roa"        -> roa]

\* rows for the chart encoder: every label tier with short and long names,
\* both signs, missing and unparsable cells, numbers stored as text
EncodePool ==
    { Row(ANTA,       20241231, Int2Num(10), Num(6, 5),              Int2Num(1)),
      Row(YOUNGR,     20241231, Num(25, 2),  Str(<<"1", ".", "5">>), Int2Num(5)),
      Row(METERSBONW, 20241231, Int2Num(-3), Num(4, 5),              Str(<<"9">>)),
      Row(YOUNGR,     20241231, Int2Num(8),  Int2Num(1),             Int2Num(6)),
      Row(METERSBONW, 20231231, Int2Num(20), Num(3, 2),              Int2Num(16)),
      Row(ANTA,       20241231, Int2Num(-4), Num(1, 2),              Int2Num(-5)),
      Row(METERSBONW, 20241231, Int2Num(7),  NaN,                    Int2Num(9)),
      Row(YOUNGR,     20241231, Str(<<"-", "-">>), Int2Num(1),       Int2Num(5)),
      Row(ANTA,       20231231, Int2Num(10), Num(6, 5),              NaN),
      Row(METERSBONW, 20231231, Int2Num(2),  Num(3, 2),              Int2Num(4)),
      Row(ANTA,       20231231, Int2Num(15), Int2Num(2),             Int2Num(12)) }

\* rows for the script: periods before and after 20241231
MainPool ==
    { Row(ANTA,       20241231, Int2Num(10), Num(6, 5),  Int2Num(1)),
      Row(YOUNGR,     20251231, Int2Num(8),  Int2Num(1), Int2Num(6)),
      Row(ANTA,       20231231, Int2Num(10), NaN,        Int2Num(5)),
      Row(METERSBONW, 20231231, Int2Num(7),  Int2Num(1), Str(<<"-", "-">>)) }

SeqsUpTo(S, k) == UNION {[1..m -> S] : m \in 0..k}

Table(rows) == [cols |-> RequiredCols, rows |-> rows]

\* a spreadsheet without the column col
WithoutCol(t, col) ==
    [cols |-> t.cols \ {col},
     rows |-> [i \in DOMAIN t.rows |-> [c \in t.cols \ {col} |-> t.rows[i][c]]]]

Readable(t) == [readable |-> TRUE, table |-> t]

Missing == [readable |-> FALSE, table |-> NoTable]

WellFormed == {Readable(Table(rows)) : rows \in SeqsUpTo(MainPool, MaxRows)}

Malformed ==
    {Readable(WithoutCol(Table(<<r>>), c)) : r \in MainPool, c \in RequiredCols}

Sources == {Missing} \cup WellFormed \cup Malformed

EncodeSources == {Readable(Table(rows)) : rows \in SeqsUpTo(EncodePool, MaxRows)}

PeriodChoices == {IntStr(20231231), IntStr(20241231), IntStr(20251231)}

----------------------------------------------------------------------------
(* main: one run of the script, re-run on every widget change *)

NoCache == [kind |-> "nocache", df |-> NoTable]

Locals ==
    /\ df = NoTable
    /\ periods = <<>>
    /\ default_period = <<>>
    /\ selected_period = <<>>
    /\ selected_stocks = {}
    /\ fig = Unset
    /\ detail = <<>>
    /\ messages = {}

Init ==
    /\ file \in Sources
    /\ cache = NoCache
    /\ pc = "start"
    /\ Locals

\* load_data returns a table: read_excel succeeds, or the cached table is
\* handed out again (st.cache_data returns a copy of the cached value)
LoadOk ==
    /\ pc = "start"
    /\ \/ cache.kind = "nocache" /\ file.readable
       \/ cache.kind = "table"
    /\ cache' = IF cache.kind = "nocache"
                THEN [kind |-> "table", df |-> file.table] ELSE cache
    /\ df' = cache'.df
    /\ pc' = "loaded"
    /\ UNCHANGED <<file, periods, default_period, selected_period,
                   selected_stocks, fig, detail, messages>>

\* load_data returns None: read_excel raises, st.error shows the message,
\* and main stops
LoadFail ==
    /\ pc = "start"
    /\ \/ cache.kind = "nocache" /\ ~file.readable
       \/ cache.kind = "None"
    /\ cache' = [kind |-> "None", df |-> NoTable]
    /\ messages' = messages \cup {"load_error"}
    /\ pc' = "stopped"
    /\ UNCHANGED <<file, df, periods, default_period, selected_period,
                   selected_stocks, fig, detail>>

Preprocess ==
    /\ pc = "loaded"
    /\ df' = preprocess_data(df)
    /\ pc' = "prepped"
    /\ UNCHANGED <<file, cache, periods, default_period, selected_period,
                   selected_stocks, fig, detail, messages>>

unique(t, col) == {t.rows[i][col].s : i \in DOMAIN t.rows}

D20241231 == IntStr(20241231)

\* variant: the last of the sorted periods
default_of_last(ps) == IF D20241231 \in Range(ps) THEN D20241231 ELSE ps[Len(ps)]

\* '20241231' if '20241231' in periods else periods[0]
default_of(ps) == IF D20241231 \in Range(ps) THEN D20241231 ELSE ps[1]

\* the sidebar can be built: both columns exist and there is a period
SidebarOk == {"period", "stock_name"} \subseteq df.cols /\ df.rows # <<>>

Sidebar ==
    /\ pc = "prepped"
    /\ SidebarOk
    /\ periods' = sorted(unique(df, "period"), TRUE)
    /\ default_period' = default_of(periods')
    /\ selected_period' \in Range(periods')
    /\ selected_stocks' \in SUBSET Range(sorted(unique(df, "stock_name"), FALSE))
    /\ pc' = "sidebar"
    /\ UNCHANGED <<file, cache, df, fig, detail, messages>>

\* df['报告期'] or df['股票名称'] raises KeyError, periods[0] raises IndexError
SidebarCrash ==
    /\ pc = "prepped"
    /\ ~SidebarOk
    /\ pc' = "crashed"
    /\ UNCHANGED <<file, cache, df, periods, default_period, selected_period,
                   selected_stocks, fig, detail, messages>>

\* variant: the run goes on with an empty selection
CheckSelection_none ==
    /\ pc = "sidebar"
    /\ messages' = messages
    /\ pc' = "selected"
    /\ UNCHANGED <<file, cache, df, periods, default_period, selected_period,
                   selected_stocks, fig, detail>>

\* if not selected_stocks: st.warning(...); st.stop()
CheckSelection ==
    /\ pc = "sidebar"
    /\ IF selected_stocks = {}
       THEN /\ messages' = messages \cup {"select_prompt"}
            /\ pc' = "stopped"
       ELSE /\ messages' = messages
            /\ pc' = "selected"
    /\ UNCHANGED <<file, cache, df, periods, default_period, selected_period,
                   selected_stocks, fig, detail>>

Chart ==
    /\ pc = "selected"
    /\ LET r == create_bubble_chart(df, selected_period, selected_stocks)
       IN  IF r.kind = "KeyError"
           THEN /\ pc' = "crashed"
                /\ UNCHANGED <<fig, messages>>
           ELSE /\ fig' = r
                /\ messages' = IF r.kind = "Figure" THEN messages
                               ELSE messages \cup {"no_chart_data"}
                /\ pc' = "charted"
    /\ UNCHANGED <<file, cache, df, periods, default_period, selected_period,
                   selected_stocks, detail>>

DisplayCols == {"stock_name", "period", "npm_num", "turnover", "roa_num"}

NA == Str(<<"N", "/", "A">>)

\* the rows of the detail table; a missing value is shown as N/A (the
\* fixed-decimal formatting of the present values is not modelled)
display(rows) ==
    [i \in DOMAIN rows |->
       [c \in DisplayCols |-> IF isna(rows[i][c]) THEN NA ELSE rows[i][c]]]

DetailTable ==
    /\ pc = "charted"
    /\ LET filtered_data == filter_rows(df.rows, selected_period, selected_stocks)
       IN  IF filtered_data = <<>>
           THEN /\ messages' = messages \cup {"no_table_data"}
                /\ detail' = detail
                /\ pc' = "done"
           ELSE IF DisplayCols \subseteq df.cols
           THEN /\ detail' = display(filtered_data)
                /\ messages' = messages
                /\ pc' = "done"
           ELSE /\ pc' = "crashed"
                /\ UNCHANGED <<detail, messages>>
    /\ UNCHANGED <<file, cache, df, periods, default_period, selected_period,
                   selected_stocks, fig>>

\* a widget change (or a reload of the page) starts the script again; only
\* the cache of load_data survives
Rerun ==
    /\ pc \in {"done", "stopped", "crashed"}
    /\ pc' = "start"
    /\ df' = NoTable
    /\ periods' = <<>>
    /\ default_period' = <<>>
    /\ selected_period' = <<>>
    /\ selected_stocks' = {}
    /\ fig' = Unset
    /\ detail' = <<>>
    /\ messages' = {}
    /\ UNCHANGED <<file, cache>>

Next ==
    \/ LoadOk
    \/ LoadFail
    \/ Preprocess
    \/ Sidebar
    \/ SidebarCrash
    \/ CheckSelection
    \/ Chart
    \/ DetailTable
    \/ Rerun

Spec == Init /\ [][Next]_vars

----------------------------------------------------------------------------
(* The two functions applied to tables, periods and selections of all kinds *)

InitEncode ==
    /\ file \in EncodeSources
    /\ cache = NoCache
    /\ pc = "raw"
    /\ df = file.table
    /\ periods = <<>>
    /\ default_period = <<>>
    /\ selected_period = <<>>
    /\ selected_stocks = {}
    /\ fig = Unset
    /\ detail = <<>>
    /\ messages = {}

Normalize ==
    /\ pc = "raw"
    /\ df' = preprocess_data(df)
    /\ pc' = "clean"
    /\ UNCHANGED <<file, cache, periods, default_period, selected_period,
                   selected_stocks, fig, detail, messages>>

Encode ==
    /\ pc = "clean"
    /\ selected_period' \in PeriodChoices
    /\ selected_stocks' \in SUBSET Names
    /\ fig' = create_bubble_chart(df, selected_period', selected_stocks')
    /\ pc' = "encoded"
    /\ UNCHANGED <<file, cache, df, periods, default_period, detail, messages>>

NextEncode ==
    \/ Normalize
    \/ Encode

SpecEncode == InitEncode /\ [][NextEncode]_vars

----------------------------------------------------------------------------
(* Properties of create_bubble_chart and preprocess_data (SpecEncode) *)

Encoded == pc = "encoded"

\* row i of the table matches the selected period and the selection
Matches(i) ==
    /\ df.rows[i]["period"].s = selected_period
    /\ df.rows[i]["stock_name"].s \in selected_stocks

\* row i has asset_turnover, net_profit_margin and return_on_assets
Present(i) ==
    /\ df.rows[i]["turnover"].t = "num"
    /\ df.rows[i]["npm_num"].t = "num"
    /\ df.rows[i]["roa_num"].t = "num"

KeptSet == {i \in DOMAIN df.rows : Matches(i) /\ Present(i)}

RECURSIVE Ascending(_)
Ascending(S) ==
    IF S = {} THEN <<>>
    ELSE LET m == CHOOSE x \in S : \A y \in S : x <= y
         IN  <<m>> \o Ascending(S \ {m})

\* the table positions of the rows that are charted, in table order
Kept == Ascending(KeptSet)

PointCount == Len(fig.size)

\* point i of the chart stands for row Kept[i]
RoaOf(i) == df.rows[Kept[i]]["roa_num"]

\* a/b = c/d for numbers with positive denominators
SameNumber(a, b, c, d) == a * d = c * b

\* C1: create_bubble_chart returns None, and never a chart, when the
\* selection is empty, when no row matches the period and the selection, or
\* when every matching row misses one of the three fields; it returns a chart
\* only when some matching row has all three fields.
C1_NoDataResult ==
    Encoded =>
        /\ fig.kind \in {"None", "Figure"}
        /\ selected_stocks = {} => fig.kind = "None"
        /\ (\A i \in DOMAIN df.rows : ~Matches(i)) => fig.kind = "None"
        /\ (\A i \in DOMAIN df.rows : Matches(i) => ~Present(i)) => fig.kind = "None"
        /\ fig.kind = "Figure" => \E i \in DOMAIN df.rows : Matches(i) /\ Present(i)
        /\ fig.kind = "None" => PointCount = 0

\* rows match, every one of them misses a field, and the result is None
C1_Witness ==
    /\ Encoded
    /\ \E i \in DOMAIN df.rows : Matches(i)
    /\ \A i \in DOMAIN df.rows : Matches(i) => ~Present(i)
    /\ fig.kind = "None"

\* C2: the diameter of every point is abs(return_on_assets) * 500 + 20 of
\* its row: rows that differ only in the sign of return_on_assets get the
\* same diameter, no diameter is below 20, and return_on_assets 0.01, 0.05,
\* 0.09 give 25, 45, 65.
C2_Diameter ==
    (Encoded /\ fig.kind = "Figure") =>
        /\ PointCount = Len(Kept)
        /\ \A i \in 1..PointCount :
             LET v == RoaOf(i)
                 z == fig.size[i]
             IN  /\ z.t = "num"
                 /\ SameNumber(z.n, z.d, Abs(v.n) * 500 + 20 * v.d, v.d)
                 /\ z.n >= 20 * z.d
                 /\ SameNumber(v.n, v.d, 1, 100) => z = Int2Num(25)
                 /\ SameNumber(v.n, v.d, 5, 100) => z = Int2Num(45)
                 /\ SameNumber(v.n, v.d, 9, 100) => z = Int2Num(65)
        /\ \A i, j \in 1..PointCount :
             (RoaOf(i).n = -RoaOf(j).n /\ RoaOf(i).d = RoaOf(j).d)
                 => fig.size[i] = fig.size[j]

\* a chart with a point of return_on_assets -0.05 and one of 0.05
C2_Witness ==
    /\ Encoded
    /\ fig.kind = "Figure"
    /\ PointCount = Len(Kept)
    /\ \E i, j \in 1..PointCount :
         /\ RoaOf(i) = Num(-5, 100)
         /\ RoaOf(j) = Num(5, 100)
         /\ fig.size[i] = Int2Num(45)
         /\ fig.size[j] = Int2Num(45)

\* the colour of the normalization value tn/td (td > 0, 0 <= tn <= td)
ColorAt(tn, td) ==
    [r |-> (255 * tn) \div td,
     g |-> (102 * td - 42 * tn) \div td,
     b |-> (255 * td - 195 * tn) \div td,
     a |-> "0.70"]

Blue == [r |-> 0, g |-> 102, b |-> 255, a |-> "0.70"]

Red == [r |-> 255, g |-> 60, b |-> 60, a |-> "0.70"]

\* v is the least (greatest) return_on_assets of the charted rows
IsMin(v) == \A k \in 1..Len(Kept) : v.n * RoaOf(k).d <= RoaOf(k).n * v.d

IsMax(v) == \A k \in 1..Len(Kept) : v.n * RoaOf(k).d >= RoaOf(k).n * v.d

\* C3: the colour of every point is the one of t = (value - min_val) /
\* (max_val - min_val), min_val and max_val taken over the charted rows, and
\* of t = 0 when all values are equal (a single row included); t lies in
\* [0,1], the least row is (0,102,255), the greatest is (255,60,60) when
\* max_val differs from min_val, and nothing is divided by zero.
C3_Normalization ==
    (Encoded /\ fig.kind = "Figure") =>
        /\ PointCount = Len(Kept)
        /\ \A i \in 1..PointCount :
             LET v  == RoaOf(i)
                 mn == RoaOf(CHOOSE k \in 1..Len(Kept) : IsMin(RoaOf(k)))
                 mx == RoaOf(CHOOSE k \in 1..Len(Kept) : IsMax(RoaOf(k)))
                 eq == mx = mn
                 \* t = (v - mn) / (mx - mn) as tn / td
                 tn == IF eq THEN 0 ELSE (v.n * mn.d - mn.n * v.d) * mx.d
                 td == IF eq THEN 1 ELSE v.d * (mx.n * mn.d - mn.n * mx.d)
             IN  /\ td > 0
                 /\ 0 <= tn /\ tn <= td
                 /\ fig.color[i] = ColorAt(tn, td)
                 /\ eq => fig.color[i] = Blue
                 /\ v = mn => fig.color[i] = Blue
                 /\ (v = mx /\ ~eq) => fig.color[i] = Red

\* the chart of return_on_assets 0.01, 0.05, 0.09: t = 0, 1/2, 1
C3_Witness ==
    /\ Encoded
    /\ fig.kind = "Figure"
    /\ PointCount = 3
    /\ Len(Kept) = 3
    /\ RoaOf(1) = Num(1, 100) /\ RoaOf(2) = Num(5, 100) /\ RoaOf(3) = Num(9, 100)
    /\ fig.color[1] = Blue
    /\ fig.color[2] = ColorAt(1, 2)
    /\ fig.color[3] = Red

NameOf(i) == df.rows[Kept[i]]["stock_name"].s

\* C4: label and font size of a point follow from its own diameter and
\* name: below 50, size 8 and the first 3 characters plus "..." when the
\* name has more than 4; from 50 and below 80, size 10 and the first 5
\* characters plus "..." when the name has more than 6; from 80 on, size 12
\* and the full name; a name within the threshold is unchanged, and the
\* hover name is always the full name.
C4_Labels ==
    (Encoded /\ fig.kind = "Figure") =>
        /\ PointCount = Len(Kept)
        /\ \A i \in 1..PointCount :
             LET z     == fig.size[i]
                 name  == NameOf(i)
                 small == z.n < 50 * z.d
                 large == z.n >= 80 * z.d
                 cut   == IF small THEN 3 ELSE 5
                 limit == IF small THEN 4 ELSE 6
             IN  /\ fig.customdata[i] = name
                 /\ fig.text_size[i] = (IF small THEN 8 ELSE IF large THEN 12 ELSE 10)
                 /\ (large \/ Len(name) <= limit) => fig.text[i] = name
                 /\ (~large /\ Len(name) > limit) =>
                        /\ Len(fig.text[i]) = cut + 3
                        /\ \A j \in 1..cut : fig.text[i][j] = name[j]
                        /\ \A j \in (cut + 1)..(cut + 3) : fig.text[i][j] = "."

\* the name of length 10 at diameter 40 is cut to 3 characters, while the
\* hover name is whole
C4_Witness ==
    /\ Encoded
    /\ fig.kind = "Figure"
    /\ PointCount = Len(Kept)
    /\ \E i \in 1..PointCount :
         /\ fig.size[i] = Int2Num(40)
         /\ Len(NameOf(i)) = 10
         /\ fig.text[i] = <<"M", "E", "T", ".", ".", ".">>
         /\ fig.text_size[i] = 8
         /\ fig.customdata[i] = METERSBONW

\* the texts of the spreadsheets that are numbers, with their values n/d
NumericTexts == { <<<<"1", ".", "5">>, 3, 2>>, <<<<"9">>, 9, 1>> }

\* the raw cell holds a number: a numeric cell, or a text that is a number
RawIsNumber(c) == c.t = "num" \/ (c.t = "str" /\ \E e \in NumericTexts : e[1] = c.s)

\* derived = raw / 100
IsFractionOf(derived, c) ==
    /\ derived.t = "num"
    /\ \/ c.t = "num" /\ SameNumber(derived.n * 100, derived.d, c.n, c.d)
       \/ c.t = "str" /\ \E e \in NumericTexts :
              e[1] = c.s /\ SameNumber(derived.n * 100, derived.d, e[2], e[3])

\* C5: after preprocess_data the derived fraction of every row is raw / 100
\* when the raw value is present and numeric, and is missing, not zero,
\* exactly when the raw value is absent or not a number; a cell that is not
\* a number raises nothing, and the rows are the same rows as before.
C5_Fractions ==
    pc \in {"clean", "encoded"} =>
        /\ Len(df.rows) = Len(file.table.rows)
        /\ \A i \in DOMAIN df.rows :
             LET raw == file.table.rows[i]
                 row == df.rows[i]
             IN  /\ row["stock_name"] = raw["stock_name"]
                 /\ row["npm"] = raw["npm"]
                 /\ row["roa"] = raw["roa"]
                 /\ RawIsNumber(raw["npm"]) => IsFractionOf(row["npm_num"], raw["npm"])
                 /\ RawIsNumber(raw["roa"]) => IsFractionOf(row["roa_num"], raw["roa"])
                 /\ isna(row["npm_num"]) <=> ~RawIsNumber(raw["npm"])
                 /\ isna(row["roa_num"]) <=> ~RawIsNumber(raw["roa"])

\* a table with an unparsable margin, a missing return and a return as text
C5_Witness ==
    /\ pc = "clean"
    /\ \E i, j, k \in DOMAIN df.rows :
         /\ file.table.rows[i]["npm"] = Str(<<"-", "-">>)
         /\ isna(df.rows[i]["npm_num"])
         /\ isna(file.table.rows[j]["roa"])
         /\ isna(df.rows[j]["roa_num"])
         /\ file.table.rows[k]["roa"] = Str(<<"9">>)
         /\ df.rows[k]["roa_num"] = Num(9, 100)

\* the table without the rows that match but miss a field
WithoutDropped ==
    [cols |-> df.cols,
     rows |-> LET Stays(r) == \A i \in DOMAIN df.rows :
                                  (df.rows[i] = r /\ Matches(i)) => Present(i)
              IN  SelectSeq(df.rows, Stays)]

\* C6: the points of the chart are the rows that match the period and the
\* selection and have all three fields, one point per row in table order; a
\* matching row that misses a field gives no point, does not make the call
\* fail and leaves the points of the other rows as they are without it.
C6_Points ==
    Encoded =>
        /\ fig.kind # "KeyError"
        /\ PointCount = Len(Kept)
        /\ \A i \in 1..PointCount :
             LET row == df.rows[Kept[i]]
             IN  /\ fig.x[i] = row["turnover"]
                 /\ fig.y[i].t = "num"
                 /\ SameNumber(fig.y[i].n, fig.y[i].d,
                               100 * row["npm_num"].n, row["npm_num"].d)
                 /\ fig.customdata[i] = row["stock_name"].s
        /\ fig = create_bubble_chart(WithoutDropped, selected_period, selected_stocks)

\* a chart of two points although a matching row misses asset_turnover
C6_Witness ==
    /\ Encoded
    /\ fig.kind = "Figure"
    /\ PointCount = 2
    /\ \E i \in DOMAIN df.rows : Matches(i) /\ isna(df.rows[i]["turnover"])
    /\ \E i \in DOMAIN df.rows : Matches(i) /\ Present(i)

----------------------------------------------------------------------------
(* Properties of main (Spec) *)

\* the source cannot be read, or a required column is absent
BadSource == ~file.readable \/ ~(RequiredCols \subseteq file.table.cols)

\* C7: when the source is missing, unreadable or malformed (a required
\* column is absent), loading ends in the load error shown to the user,
\* nothing is raised, and main stops before preprocess_data, the encoder
\* and the table.
C7_BadSourceStops ==
    BadSource =>
        /\ pc \in {"start", "stopped"}
        /\ pc = "stopped" => "load_error" \in messages
        /\ df = NoTable

\* the run is past the check of the selection
PastCheck == pc \in {"selected", "charted", "done"} \/ (pc = "crashed" /\ periods # <<>>)

\* C8: main never calls create_bubble_chart with an empty selection: with an
\* empty selection it shows the prompt to select an entity and stops before
\* the encoder and the detail table.
C8_NoEmptySelection ==
    /\ PastCheck => selected_stocks # {}
    /\ (fig # Unset \/ detail # <<>>) => selected_stocks # {}
    /\ (pc = "stopped" /\ cache.kind = "table") =>
           /\ selected_stocks = {}
           /\ "select_prompt" \in messages
           /\ fig = Unset
           /\ detail = <<>>
    /\ {"no_chart_data", "no_table_data"} \cap messages # {} => selected_stocks # {}

\* a run stopped at the prompt, nothing charted
C8_Witness ==
    /\ pc = "stopped"
    /\ cache.kind = "table"
    /\ periods # <<>>
    /\ selected_stocks = {}
    /\ messages = {"select_prompt"}
    /\ fig = Unset

SidebarBuilt == pc \in {"sidebar", "selected", "charted", "done", "stopped"} /\ periods # <<>>

\* the distinct period values of the spreadsheet, as text
FilePeriods == {IntStr(file.table.rows[i]["period"].n) : i \in DOMAIN file.table.rows}

\* p is the largest of the period values (the most recent date code)
Largest(p) == p \in FilePeriods /\ \A q \in FilePeriods : q = p \/ LexLess(q, p)

C10_InputUnchanged ==
    (pc # "start" /\ cache.kind = "table" /\ ~BadSource) => df = cache.df

====
